---- MODULE Spec2Model ----
(***************************************************************************)
(* A model of src/main.py: the Telegram tech-news bot.                     *)
(*                                                                         *)
(* The process checks its environment, builds a TechNewsBot, registers one *)
(* cron job per entry of Config.POST_TIMES and then sleeps.  Every job     *)
(* runs process_and_post_news: fetch the three Hacker News feeds, remove   *)
(* duplicate links, keep the three entries with most points, translate     *)
(* the titles, format one message and send it.                             *)
(*                                                                         *)
(* process_and_post_news is a coroutine; its atomic steps are the pieces    *)
(* between two awaits (one HTTP GET per source, one translation per title,  *)
(* one HTTP POST), and the steps of different jobs interleave.              *)
(***************************************************************************)
EXTENDS Integers, Sequences, FiniteSets, TLC

\* ---------------------------------------------------------------- bounds
\* Number of cron instants the clock passes in a behaviour, and in a
\* behaviour checked for liveness.
MaxFires == 4
FairFires == 2
\* Entries the three feeds hold together, per family of inputs.
RunEntries == 4
TopEntries == 5
FetchEntries == 2
\* Largest number of points a feed entry announces.
MaxPoints == 2

\* ------------------------------------------------------ program constants
\* len(Config.HN_SOURCES)
NumSources == 3
\* len(Config.POST_TIMES)
NumJobs == 3
\* feed.entries[:10]
FeedCap == 10
\* sorted(...)[:3]
TopCount == 3

Sources == 1..NumSources
Jobs == 1..NumJobs

\* The credentials of class Config, each read from the environment.
ConfigVars == {"TELEGRAM_BOT_TOKEN", "TELEGRAM_CHANNEL_ID", "GEMINI_API_KEY"}

\* required_vars with the Gemini key forgotten.
RequiredVarsWithoutGemini == {"TELEGRAM_BOT_TOKEN", "TELEGRAM_CHANNEL_ID"}

\* required_vars of the __main__ block
required_vars == {"TELEGRAM_BOT_TOKEN", "TELEGRAM_CHANNEL_ID", "GEMINI_API_KEY"}

\* The state of one environment variable: not set, set to "", set to a value.
EnvValues == {"unset", "empty", "real"}

\* os.getenv(var): None (here "unset") or the value.
\* os.getenv(var, default) of class Config: the default only when not set.
ConfigValue(e, var) == IF e[var] = "unset" THEN "default" ELSE e[var]

\* missing_vars = [var for var in required_vars if not os.getenv(var)]
\* (not None and not "" are both true)
missing_vars(e) == {var \in required_vars : e[var] \in {"unset", "empty"}}

\* ------------------------------------------------------------- exceptions
\* Exceptions the external calls raise; all are subclasses of Exception.
ExceptionKinds == {"ClientError", "TimeoutError", "AttributeError", "ValueError"}

\* A clause that names aiohttp.ClientError instead of Exception.
ExceptOnlyClientError(e) == e = "ClientError"

\* The clause `except Exception as e:` of fetch_news, translate_to_russian,
\* send_message and process_and_post_news: does it catch e?
ExceptException(e) == e \in ExceptionKinds

\* ------------------------------------------------------------ feed entries
\* entry.comments, by what fetch_news looks at: is the attribute present,
\* does the text contain 'points', is its first word an integer, and which.
NoComments == [present |-> FALSE, mentionsPoints |-> FALSE, firstIsInt |-> FALSE, first |-> 0]
UrlComments == [present |-> TRUE, mentionsPoints |-> FALSE, firstIsInt |-> FALSE, first |-> 0]
PointsComments(n) == [present |-> TRUE, mentionsPoints |-> TRUE, firstIsInt |-> TRUE, first |-> n]
WordyComments(n) == [present |-> TRUE, mentionsPoints |-> TRUE, firstIsInt |-> FALSE, first |-> n]

\* The title of the story behind a link, in the original language.
TitleOf(l) == [lang |-> "en", id |-> l, padded |-> FALSE]

\* A feed entry; missing names the attribute the entry lacks ("none": complete).
MkEntry(l, c, m) == [link |-> l, title |-> TitleOf(l), comments |-> c, missing |-> m]

\* points = 0; if hasattr(entry, 'comments') and 'points' in entry.comments:
\*     try: points = int(entry.comments.split()[0])  except: points = 0
ParsePoints(c) ==
    IF c.present /\ c.mentionsPoints
    THEN (IF c.firstIsInt THEN c.first ELSE 0)
    ELSE 0

\* news_item = {'title': ..., 'link': ..., 'points': points, ...}
news_item(entry) == [title |-> entry.title, link |-> entry.link, points |-> ParsePoints(entry.comments)]

\* s[:n]
Take(s, n) == SubSeq(s, 1, IF Len(s) < n THEN Len(s) ELSE n)

\* Insert x behind every element with at least as many points (stable).
InsertDesc(sorted, x) ==
    LET k == Cardinality({i \in DOMAIN sorted : sorted[i].points >= x.points})
    IN SubSeq(sorted, 1, k) \o <<x>> \o SubSeq(sorted, k + 1, Len(sorted))

RECURSIVE SortedByPoints(_)
\* sorted(news, key=lambda x: x['points'], reverse=True): stable, descending.
SortedByPoints(s) ==
    IF s = <<>> THEN <<>>
    ELSE InsertDesc(SortedByPoints(SubSeq(s, 1, Len(s) - 1)), s[Len(s)])

\* The exception fetch_news meets inside its try block, or "none":
\* the GET fails, or an entry among the first ten lacks an attribute
\* (entry.title raises AttributeError).
FetchRaises(http, feed) ==
    IF http # "ok" THEN http
    ELSE IF \E i \in DOMAIN Take(feed, FeedCap) : feed[i].missing # "none"
         THEN "AttributeError"
         ELSE "none"

\* The list fetch_news returns when nothing is raised.
ParsedNews(feed) ==
    LET top == Take(feed, FeedCap)
    IN SortedByPoints([i \in DOMAIN top |-> news_item(top[i])])

\* fetch_news(url), when the exception (if any) is caught: [] on any exception.
fetch_news(http, feed) ==
    IF FetchRaises(http, feed) # "none" THEN <<>> ELSE ParsedNews(feed)

\* The loop without its test on seen_links.
UniqueKeepAll(s) == s

RECURSIVE UniqueByLink(_)
\* seen_links / unique_news loop: the first entry of every link, in order.
UniqueByLink(s) ==
    IF s = <<>> THEN <<>>
    ELSE LET init == UniqueByLink(SubSeq(s, 1, Len(s) - 1))
             x == s[Len(s)]
         IN IF \E i \in DOMAIN init : init[i].link = x.link
            THEN init
            ELSE Append(init, x)

\* The slice one entry longer.
TopFour(s) == Take(SortedByPoints(s), TopCount + 1)

\* sorted(unique_news, key=lambda x: x['points'], reverse=True)[:3]
TopThree(s) == Take(SortedByPoints(s), TopCount)

\* The value get_top_stories returns for the concatenated fetch results.
get_top_stories(all) == TopThree(UniqueByLink(all))

\* ------------------------------------------------------------- translation
\* What the backend answers for a title: its translation, possibly padded
\* with white space.
BackendText(title, pad) == [lang |-> "ru", id |-> title.id, padded |-> pad]

\* response.text.strip()
Strip(t) == [t EXCEPT !.padded = FALSE]

\* An except clause that returns an error text in place of the original.
TranslateOrErrorText(text, reply, pad) ==
    IF reply = "ok" THEN Strip(BackendText(text, pad))
    ELSE [lang |-> "error", id |-> text.id, padded |-> FALSE]

\* translate_to_russian(text): reply is "ok" or the exception raised inside
\* the try block; on an exception the original text is returned.
translate_to_russian(text, reply, pad) ==
    IF reply = "ok" THEN Strip(BackendText(text, pad)) ELSE text

\* translated_titles.append(translated)
AppendTitle(s, x) == Append(s, x)

\* ---------------------------------------------------------------- message
\* format_news_post: line i carries the i-th translation and the i-th
\* item's points and link; zip stops at the shorter list.
format_news_post(items, titles) ==
    LET n == IF Len(items) < Len(titles) THEN Len(items) ELSE Len(titles)
    IN [i \in 1..n |-> [num |-> i, text |-> titles[i],
                        points |-> items[i].points, link |-> items[i].link]]

\* send_message: True only for status 200; any exception gives False.
send_message(outcome) == outcome = "200"

\* ------------------------------------------------------------------ inputs
\* The code compares links only for equality, so the links of the entries
\* the sources return are numbered in order of first appearance.
CanonicalLinks(n) ==
    {lk \in [1..n -> 1..n] :
        \A i \in 1..n : lk[i] > 1 => \E k \in 1..(i - 1) : lk[k] = lk[i] - 1}

\* Where n entries are cut in the feeds of the three sources.
Cuts(n) == {ab \in (0..n) \X (0..n) : ab[1] <= ab[2]}

\* The three feeds made of the entries (lk[i], cm[i], ms[i]).
FeedTriple(n, lk, cm, ms, ab) ==
    LET f == [i \in 1..n |-> MkEntry(lk[i], cm[i], ms[i])]
    IN <<SubSeq(f, 1, ab[1]), SubSeq(f, ab[1] + 1, ab[2]), SubSeq(f, ab[2] + 1, n)>>

\* t is what the three sources return: at most max entries together.
IsFeedTriple(t, max, comments, missing) ==
    \E n \in 0..max : \E lk \in CanonicalLinks(n) :
      \E cm \in [1..n -> comments] : \E ms \in [1..n -> missing] :
        \E ab \in Cuts(n) : t = FeedTriple(n, lk, cm, ms, ab)

\* The comments texts and the missing attributes the families of feeds use.
AllComments == {NoComments, UrlComments, PointsComments(1), WordyComments(1)}
ScoredComments == {PointsComments(n) : n \in 0..MaxPoints}
RunComments == {UrlComments, PointsComments(1)}
Attributes == {"none", "title", "link", "published"}

\* env: the environment; proc, exitCode: where the process is; usedCreds:
\* the credentials handed to a client so far; feeds: what each source
\* returns; clock: cron instants passed.  Per job: pc, src (next source),
\* lastGet, and the locals all_news, news_items, translated_titles, post_text
\* of its run; trFailed: the titles the backend failed for; sendCalls: calls
\* of send_message in its latest run; runId: the instant that started it.
\* publishedBy: <<link, run>> for every story delivered; escaped: jobs whose
\* run raised to the scheduler; started: runs started.
VARIABLES env, proc, exitCode, usedCreds, feeds, clock,
          pc, src, lastGet, all_news, news_items, translated_titles, trFailed,
          post_text, sendCalls, runId, publishedBy, escaped, started

vars == <<env, proc, exitCode, usedCreds, feeds, clock,
          pc, src, lastGet, all_news, news_items, translated_titles, trFailed,
          post_text, sendCalls, runId, publishedBy, escaped, started>>

procVars == <<env, proc, exitCode, usedCreds, feeds>>
runVars == <<pc, src, lastGet, all_news, news_items, translated_titles, trFailed,
             post_text, sendCalls, runId, publishedBy, escaped, started>>

NoRuns ==
    /\ pc = [j \in Jobs |-> "idle"]
    /\ src = [j \in Jobs |-> 1]
    /\ lastGet = [j \in Jobs |-> "none"]
    /\ all_news = [j \in Jobs |-> <<>>]
    /\ news_items = [j \in Jobs |-> <<>>]
    /\ translated_titles = [j \in Jobs |-> <<>>]
    /\ trFailed = [j \in Jobs |-> {}]
    /\ post_text = [j \in Jobs |-> <<>>]
    /\ sendCalls = [j \in Jobs |-> 0]
    /\ runId = [j \in Jobs |-> 0]
    /\ publishedBy = {}
    /\ escaped = {}
    /\ started = 0

\* A feed of one story, as hnrss.org writes it: comments holds a URL.
FrontPage == <<MkEntry(1, UrlComments, "none")>>

\* The interpreter has loaded the module; the __main__ block has not run.
Init ==
    /\ env \in [ConfigVars -> EnvValues]
    /\ proc = "main"
    /\ exitCode = 0
    /\ usedCreds = {}
    /\ feeds \in [Sources -> {<<>>, FrontPage}]
    /\ clock = 0
    /\ NoRuns

\* if missing_vars: logger.error(...); exit(1)
MainExit ==
    /\ proc = "main"
    /\ missing_vars(env) # {}
    /\ proc' = "exited"
    /\ exitCode' = 1
    /\ UNCHANGED <<env, usedCreds, feeds, clock>>
    /\ UNCHANGED runVars

\* The credentials the constructors read from Config: GeminiTranslator
\* (genai.configure) and TelegramPoster (base_url).
ConstructorCreds ==
    {<<v, ConfigValue(env, v)>> : v \in {"GEMINI_API_KEY", "TELEGRAM_BOT_TOKEN"}}

\* run_forever with a first run of process_and_post_news started before
\* the scheduler.
RunForeverAfterFirstRun ==
    /\ proc = "main"
    /\ missing_vars(env) = {}
    /\ proc' = "waiting"
    /\ usedCreds' = usedCreds \cup ConstructorCreds
    /\ pc' = [pc EXCEPT ![1] = "fetch"]
    /\ started' = started + 1
    /\ UNCHANGED <<env, exitCode, feeds, clock>>
    /\ UNCHANGED <<src, lastGet, all_news, news_items, translated_titles, trFailed,
                   post_text, sendCalls, runId, publishedBy, escaped>>

\* asyncio.run(main()): TechNewsBot(), __aenter__, run_forever up to its
\* sleep loop: the jobs are registered and the scheduler started; no run.
RunForever ==
    /\ proc = "main"
    /\ missing_vars(env) = {}
    /\ proc' = "waiting"
    /\ usedCreds' = usedCreds \cup ConstructorCreds
    /\ UNCHANGED <<env, exitCode, feeds, clock>>
    /\ UNCHANGED runVars

\* The job whose cron instant comes after k instants have passed
\* (09:00, 12:00, 18:00, 09:00, ...).
JobAt(k) == (k % NumJobs) + 1

\* A cron instant arrives.  setup_scheduler registers one job per post time,
\* each under its own id and with the scheduler's default of one running
\* instance per job: the trigger is skipped only when the SAME job still runs.
Fire(j) ==
    /\ proc = "waiting"
    /\ j = JobAt(clock)
    /\ clock' = clock + 1
    /\ IF pc[j] # "idle"
       THEN UNCHANGED runVars
       ELSE /\ pc' = [pc EXCEPT ![j] = "fetch"]
            /\ sendCalls' = [sendCalls EXCEPT ![j] = 0]
            /\ runId' = [runId EXCEPT ![j] = clock + 1]
            /\ started' = started + 1
            /\ UNCHANGED <<src, lastGet, all_news, news_items, translated_titles,
                           trFailed, post_text, publishedBy, escaped>>
    /\ UNCHANGED procVars

\* How the latest GET of a run's fetch phase ended.
GetResult(http) == IF http = "ok" THEN "ok" ELSE "failed"

\* process_and_post_news returns or raises: the coroutine is over and its
\* local variables are gone.
EndRun(j, raised) ==
    /\ pc' = [pc EXCEPT ![j] = "idle"]
    /\ src' = [src EXCEPT ![j] = 1]
    /\ lastGet' = [lastGet EXCEPT ![j] = "none"]
    /\ all_news' = [all_news EXCEPT ![j] = <<>>]
    /\ news_items' = [news_items EXCEPT ![j] = <<>>]
    /\ translated_titles' = [translated_titles EXCEPT ![j] = <<>>]
    /\ trFailed' = [trFailed EXCEPT ![j] = {}]
    /\ post_text' = [post_text EXCEPT ![j] = <<>>]
    /\ escaped' = IF raised THEN escaped \cup {j} ELSE escaped

\* One `news = await self.fetch_news(source)` of get_top_stories; after the
\* last source the duplicates are removed, the top three taken, and
\* process_and_post_news returns when the list is empty.
FetchStep(j) ==
    /\ pc[j] = "fetch"
    /\ \E http \in {"ok", "ClientError", "TimeoutError"} :
         LET exc == FetchRaises(http, feeds[src[j]])
             all == all_news[j] \o fetch_news(http, feeds[src[j]])
         IN IF exc # "none" /\ ~ExceptException(exc)
            THEN \* not caught in fetch_news: it reaches process_and_post_news
                 EndRun(j, ~ExceptException(exc))
            ELSE IF src[j] < NumSources
            THEN /\ all_news' = [all_news EXCEPT ![j] = all]
                 /\ src' = [src EXCEPT ![j] = src[j] + 1]
                 /\ lastGet' = [lastGet EXCEPT ![j] = GetResult(http)]
                 /\ UNCHANGED <<pc, news_items, translated_titles, trFailed,
                                post_text, escaped>>
            ELSE IF get_top_stories(all) = <<>>
            THEN EndRun(j, FALSE)
            ELSE /\ all_news' = [all_news EXCEPT ![j] = all]
                 /\ news_items' = [news_items EXCEPT ![j] = get_top_stories(all)]
                 /\ pc' = [pc EXCEPT ![j] = "translate"]
                 /\ lastGet' = [lastGet EXCEPT ![j] = GetResult(http)]
                 /\ UNCHANGED <<src, translated_titles, trFailed, post_text, escaped>>
    /\ UNCHANGED <<sendCalls, runId, publishedBy, started>>
    /\ UNCHANGED <<procVars, clock>>

\* One `translated = await self.translator.translate_to_russian(item['title'])`;
\* after the last title the post is formatted and send_message is entered.
TranslateStep(j) ==
    /\ pc[j] = "translate"
    /\ \E reply \in {"ok", "TimeoutError", "ValueError"}, pad \in BOOLEAN :
         LET i == Len(translated_titles[j]) + 1
             text == news_items[j][i].title
             titles == AppendTitle(translated_titles[j], translate_to_russian(text, reply, pad))
         IN IF reply # "ok" /\ ~ExceptException(reply)
            THEN EndRun(j, ~ExceptException(reply))
            ELSE /\ translated_titles' = [translated_titles EXCEPT ![j] = titles]
                 /\ lastGet' = [lastGet EXCEPT ![j] = "none"]
                 /\ trFailed' = [trFailed EXCEPT ![j] =
                                    IF reply = "ok" THEN @ ELSE @ \cup {i}]
                 /\ IF i < Len(news_items[j])
                    THEN UNCHANGED <<pc, post_text>>
                    ELSE /\ pc' = [pc EXCEPT ![j] = "send"]
                         /\ post_text' = [post_text EXCEPT ![j] =
                                             format_news_post(news_items[j], titles)]
                 /\ UNCHANGED <<src, all_news, news_items, escaped>>
    /\ UNCHANGED <<sendCalls, runId, publishedBy, started>>
    /\ UNCHANGED <<procVars, clock>>

\* `success = await self.poster.send_message(post_text)`: the POST answers
\* 200, another status, or raises; the run logs the result and returns.
SendStep(j) ==
    /\ pc[j] = "send"
    /\ \E outcome \in {"200", "500", "ClientError", "TimeoutError"} :
         /\ sendCalls' = [sendCalls EXCEPT ![j] = @ + 1]
         /\ usedCreds' = usedCreds \cup
                {<<v, ConfigValue(env, v)>> : v \in {"TELEGRAM_CHANNEL_ID"}}
         /\ IF outcome \in ExceptionKinds /\ ~ExceptException(outcome)
            THEN /\ EndRun(j, ~ExceptException(outcome))
                 /\ UNCHANGED publishedBy
            ELSE /\ EndRun(j, FALSE)
                 /\ publishedBy' =
                      IF send_message(outcome)
                      THEN publishedBy \cup
                             {<<post_text[j][i].link, runId[j]>> : i \in DOMAIN post_text[j]}
                      ELSE publishedBy
    /\ UNCHANGED <<runId, started>>
    /\ UNCHANGED <<env, proc, exitCode, feeds, clock>>

\* The steps of the program while the clock passes at most fires instants.
Step(fires) ==
    \/ MainExit
    \/ RunForever
    \/ clock < fires /\ \E j \in Jobs : Fire(j)
    \/ \E j \in Jobs : FetchStep(j)
    \/ \E j \in Jobs : TranslateStep(j)
    \/ \E j \in Jobs : SendStep(j)

Next == Step(MaxFires)

Spec == Init /\ [][Next]_vars

\* The runs go on: the event loop resumes a coroutine whose await is answered,
\* and every external call is answered or fails.  Cron instants need not come.
RunStep(j) == FetchStep(j) \/ TranslateStep(j) \/ SendStep(j)

NextFair == Step(FairFires)

FairSpec == Init /\ [][NextFair]_vars /\ \A j \in Jobs : WF_vars(RunStep(j))

\* The bot is configured and waits for its first cron instant.
Waiting ==
    /\ env = [v \in ConfigVars |-> "real"]
    /\ proc = "waiting"
    /\ exitCode = 0
    /\ usedCreds = ConstructorCreds
    /\ clock = 0
    /\ NoRuns

\* One run of the first job, for every answer of the sources, the
\* translation backend and Telegram.
InitRun ==
    /\ Waiting
    /\ IsFeedTriple(feeds, RunEntries, RunComments, {"none"})

NextRun ==
    \/ clock = 0 /\ Fire(1)
    \/ FetchStep(1)
    \/ TranslateStep(1)
    \/ SendStep(1)

SpecRun == InitRun /\ [][NextRun]_vars

\* The fetch phase of one run over feeds with incomplete entries and every
\* kind of comments text.
InitFetch ==
    /\ Waiting
    /\ IsFeedTriple(feeds, FetchEntries, AllComments, Attributes)

NextFetch ==
    \/ clock = 0 /\ Fire(1)
    \/ FetchStep(1)

SpecFetch == InitFetch /\ [][NextFetch]_vars

\* get_top_stories over scored feeds: the run of the first job has fetched
\* the first two sources and awaits the third.
InitTop ==
    /\ IsFeedTriple(feeds, TopEntries, ScoredComments, {"none"})
    /\ env = [v \in ConfigVars |-> "real"]
    /\ proc = "waiting"
    /\ exitCode = 0
    /\ usedCreds = ConstructorCreds
    /\ clock = 1
    /\ pc = [j \in Jobs |-> IF j = 1 THEN "fetch" ELSE "idle"]
    /\ src = [j \in Jobs |-> IF j = 1 THEN NumSources ELSE 1]
    /\ lastGet = [j \in Jobs |-> IF j = 1 THEN "ok" ELSE "none"]
    /\ all_news = [j \in Jobs |-> IF j = 1
                       THEN fetch_news("ok", feeds[1]) \o fetch_news("ok", feeds[2])
                       ELSE <<>>]
    /\ news_items = [j \in Jobs |-> <<>>]
    /\ translated_titles = [j \in Jobs |-> <<>>]
    /\ trFailed = [j \in Jobs |-> {}]
    /\ post_text = [j \in Jobs |-> <<>>]
    /\ sendCalls = [j \in Jobs |-> 0]
    /\ runId = [j \in Jobs |-> IF j = 1 THEN 1 ELSE 0]
    /\ publishedBy = {}
    /\ escaped = {}
    /\ started = 1

NextTop == FetchStep(1)

SpecTop == InitTop /\ [][NextTop]_vars

\* ------------------------------------------------------------------ claims
Running == {j \in Jobs : pc[j] # "idle"}

\* The links of a list of items or of message lines.
LinksOf(items) == {items[i].link : i \in DOMAIN items}

\* C1: a story a run has published is never published again by a later run.
C1_NeverRepublished ==
    \A p \in publishedBy : \A q \in publishedBy : p[1] = q[1] => p[2] = q[2]

\* C2: at most one run of process_and_post_news is in progress at any time.
C2_SingleRun == Cardinality(Running) <= 1

\* The links run r has delivered to the channel.
DeliveredBy(r) == {p[1] : p \in {q \in publishedBy : q[2] = r}}

\* The links the three sources hold.
FeedLinks == UNION {LinksOf(feeds[s]) : s \in Sources}

\* C3: a run calls send_message at most once, and the message it sends
\* carries at most 3 stories.
C3_PostQuota ==
    \A j \in Jobs :
        /\ sendCalls[j] <= 1
        /\ Len(post_text[j]) <= 3
        /\ Cardinality(DeliveredBy(runId[j])) <= 3

\* A run has delivered one message of three stories although the sources
\* returned four different links.
C3_Witness ==
    \E j \in Jobs :
        /\ pc[j] = "idle"
        /\ sendCalls[j] = 1
        /\ Cardinality(DeliveredBy(runId[j])) = 3
        /\ Cardinality(FeedLinks) > 3

\* Where the backend failed, the translation is the title itself, and so is
\* the text of that story's line in the message; nothing was raised.
FallbackIsOriginal ==
    \A j \in Jobs :
        /\ j \notin escaped
        /\ \A i \in trFailed[j] :
             /\ i \in DOMAIN translated_titles[j]
             /\ translated_titles[j][i] = news_items[j][i].title
             /\ pc[j] = "send" =>
                  /\ i \in DOMAIN post_text[j]
                  /\ post_text[j][i].text = news_items[j][i].title
                  /\ post_text[j][i].link = news_items[j][i].link

\* A run leaves its translation loop only to send the message.
TranslationLeadsToSend ==
    \A j \in Jobs : (pc[j] = "translate" /\ pc'[j] # "translate") => pc'[j] = "send"

\* C4: when the translation backend fails for a title, translate_to_russian
\* does not raise and returns the text unchanged, and the run still sends a
\* message whose line for that story carries the original title.
C4_TranslationFallback == []FallbackIsOriginal /\ [][TranslationLeadsToSend]_vars

\* The message of a run is ready to be sent; the backend failed for one
\* title and answered for another.
C4_Witness ==
    \E j \in Jobs :
        /\ pc[j] = "send"
        /\ trFailed[j] # {}
        /\ trFailed[j] # DOMAIN news_items[j]

\* The complete entries among the first ten of a feed.
CompleteEntries(feed) ==
    LET top == Take(feed, FeedCap)
    IN {news_item(top[i]) : i \in {k \in DOMAIN top : top[k].missing = "none"}}

\* C5: fetch_news skips only the incomplete entries of a feed: after a GET
\* that succeeded, the complete entries of that feed are among the news.
C5_MalformedSkipped ==
    \A j \in Jobs :
        (pc[j] = "fetch" /\ src[j] > 1 /\ lastGet[j] = "ok") =>
            \A e \in CompleteEntries(feeds[src[j] - 1]) :
                \E i \in DOMAIN all_news[j] : all_news[j][i] = e

C7_RunsReturn ==
    /\ [](escaped = {})
    /\ \A j \in Jobs : []<>(pc[j] = "idle")

\* A run has returned after its message was refused, and the run a later
\* trigger started has delivered its own.
C7_Witness ==
    \E j \in Jobs : \E k \in Jobs :
        /\ pc[j] = "idle"
        /\ sendCalls[j] = 1
        /\ DeliveredBy(runId[j]) = {}
        /\ runId[k] > runId[j]
        /\ DeliveredBy(runId[k]) # {}

\* C8: with a required variable missing the process exits with status 1
\* before the scheduler starts and before any fetch or publish, and no
\* default value of a credential is ever used.
C8_MissingConfigFatal ==
    /\ (\E v \in DOMAIN env : env[v] \in {"unset", "empty"}) =>
          /\ proc \in {"main", "exited"}
          /\ proc = "exited" => exitCode = 1
          /\ started = 0 /\ clock = 0 /\ Running = {}
          /\ usedCreds = {}
    /\ \A c \in usedCreds : c[2] = "real"

\* The process has exited with status 1 because the Gemini key alone is not set.
C8_Witness ==
    /\ proc = "exited"
    /\ exitCode = 1
    /\ env["GEMINI_API_KEY"] = "unset"
    /\ \A v \in DOMAIN env : v # "GEMINI_API_KEY" => env[v] = "real"

\* C9: get_top_stories returns its stories in non-increasing order of
\* points, and no story it leaves out has more points than one it returns.
C9_HighestFirst ==
    \A j \in Jobs :
        pc[j] = "translate" =>
            /\ \A i \in DOMAIN news_items[j] : \A k \in DOMAIN news_items[j] :
                 i < k => news_items[j][i].points >= news_items[j][k].points
            /\ \A i \in DOMAIN all_news[j] :
                 all_news[j][i].link \notin LinksOf(news_items[j]) =>
                     \A k \in DOMAIN news_items[j] :
                         all_news[j][i].points <= news_items[j][k].points

\* C10: no link appears twice in a message, and line i carries the link and
\* points of the i-th selected story with the title of that story, translated
\* or original.
C10_MessagePairsStories ==
    \A j \in Jobs :
        pc[j] = "send" =>
            /\ Len(post_text[j]) = Len(news_items[j])
            /\ \A i \in DOMAIN post_text[j] : \A k \in DOMAIN post_text[j] :
                 post_text[j][i].link = post_text[j][k].link => i = k
            /\ \A i \in DOMAIN post_text[j] :
                 /\ post_text[j][i].num = i
                 /\ post_text[j][i].link = news_items[j][i].link
                 /\ post_text[j][i].points = news_items[j][i].points
                 /\ post_text[j][i].text \in
                      {news_items[j][i].title, Strip(BackendText(news_items[j][i].title, TRUE))}

\* A message of two stories is ready: a link that two sources returned, its
\* title in the original, and a second story with its title translated.
C10_Witness ==
    \E j \in Jobs :
        /\ pc[j] = "send"
        /\ Len(post_text[j]) = 2
        /\ Len(all_news[j]) > Cardinality(LinksOf(all_news[j]))
        /\ trFailed[j] = {1}

====
